---- MODULE Spec2Model ----
(***************************************************************************)
(* A model of the DRF priority controller (Code/Controller.py and          *)
(* Code/kueue_integration.py): the job observer, the gang filter, the DRF  *)
(* scorer, the batched Kueue updater and the reconciliation loop.          *)
(*                                                                         *)
(* Numbers.  Python floats are modelled in fixed point.  A score, a share  *)
(* and an aging factor are integers counting 1/Scale.  A resource amount   *)
(* is an integer counting 1/1000 of its unit (millicores, milli-MiB,       *)
(* milli-devices).  Instants are whole seconds.                            *)
(*                                                                         *)
(* Names.  A job name and a workload name are sequences of characters, so  *)
(* that Python's substring test `a in b` is computed, not assumed.         *)
(***************************************************************************)
EXTENDS Integers, Sequences, FiniteSets, TLC

VARIABLES
    \* ---- long-lived state of the controller objects
    running,              \* DRFController.running
    scheduling_interval,  \* DRFController.scheduling_interval (seconds)
    kueue_manager,        \* K8SController.kueue_manager is not None
    aging_alpha,          \* DRFScheduler.aging_alpha, in 1/Scale per second
    \* ---- the cluster and the wall clock (the environment)
    clock,                \* what datetime.now() returns, in seconds
    api_jobs,             \* what list_job_for_all_namespaces() returns
    api_nodes,            \* what list_node() returns
    workloads,            \* what list_cluster_custom_object() returns
    api_fault,            \* per job: what the API does to its update calls
    wl_patch,             \* per workload: the patch last applied to it
    \* ---- DRFController.start()
    pc,                   \* position of the control in start()
    tick,                 \* number of the iteration of the while loop
    \* ---- locals of one tick (calculate_job_priorities)
    pending_jobs,         \* get_pending_jobs() result
    cluster_info,         \* get_cluster_info() result
    schedulable_jobs,     \* handle_gang_scheduling() result
    job_priorities,       \* list of <<job, score>>
    \* ---- locals of update_all_job_priorities
    batch_i,              \* the loop variable i of range(0, total, batch_size)
    th,                   \* per rank: state of its task in the thread pool
    results,              \* per rank: what patch_job returned
    success_count,
    \* ---- history (not read by the program)
    hist

vars == << running, scheduling_interval, kueue_manager, aging_alpha,
           clock, api_jobs, api_nodes, workloads, api_fault, wl_patch,
           pc, tick,
           pending_jobs, cluster_info, schedulable_jobs, job_priorities,
           batch_i, th, results, success_count, hist >>

\* ------------------------------------------------------------------------
\* Representation
\* ------------------------------------------------------------------------

\* Resolution of the fixed-point model of Python floats (a score of 1.0).
Scale == 10000

\* Python's None among strings (Optional[str]).
None == "<None>"

\* A value that may be missing (None, or an exception instead of a result)
\* is a sequence of length 0 or 1.
Nothing == << >>
Some(v) == << v >>

\* JobPriority
NORMAL == "Normal"
URGENT == "Urgent"

\* ResourceType
CPU == "cpu"
GPU == "gpu"
MEMORY == "memory"
ResourceType == {CPU, GPU, MEMORY}

Max(S) == CHOOSE x \in S : \A y \in S : y <= x

Range(s) == {s[i] : i \in 1..Len(s)}

\* Python's `a in b` for strings.
IsSubstring(a, b) ==
    \E k \in 0..(Len(b) - Len(a)) : SubSeq(b, k + 1, k + Len(a)) = a

\* Python truthiness of an Optional[str].
StrTruthy(s) == s # None /\ s # ""

\* ------------------------------------------------------------------------
\* DRFScheduler
\* ------------------------------------------------------------------------

aging_alpha_default == 1000      \* 0.1 per second, in 1/Scale

\* Python's true division on the fixed-point representation: the quotient
\* of two amounts, as a share counted in 1/Scale.
Share(requested_amount, total_resource) ==
    (requested_amount * Scale) \div total_resource

\* Shares in which a kind the cluster has none of counts as a whole share.
dominant_shares_unskipped(job, ci) ==
    { IF rt \in DOMAIN ci.total_resources /\ ci.total_resources[rt] > 0
      THEN Share(job.resources[rt], ci.total_resources[rt]) ELSE Scale :
        rt \in DOMAIN job.resources }

dominant_shares(job, ci) ==
    { Share(job.resources[rt], ci.total_resources[rt]) :
        rt \in { r \in DOMAIN job.resources :
                   /\ r \in DOMAIN ci.total_resources
                   /\ ci.total_resources[r] > 0 } }

calculate_dominant_share(job, ci) ==
    IF dominant_shares(job, ci) # {} THEN Max(dominant_shares(job, ci)) ELSE 0

\* One weight for both classes.
equal_weight(job) == 1000 * Scale

priority_weight(job) == IF job.priority = URGENT THEN 0 ELSE 1000 * Scale

\* A score that grows with the age.
score_raised_by_age(job, ci, alpha, now) ==
    priority_weight(job) + calculate_dominant_share(job, ci)
        + alpha * (now - job.creation_timestamp)

\* `now` is the value datetime.now() returns inside the call.
calculate_priority_score(job, ci, alpha, now) ==
    LET dominant_share == calculate_dominant_share(job, ci)
        time_diff      == now - job.creation_timestamp
        aging_factor   == alpha * time_diff
    IN  priority_weight(job) + dominant_share - aging_factor

\* ------------------------------------------------------------------------
\* Sorting: list.sort(key=lambda x: x[1]) and sorted(..., key=lambda x: x[1])
\* are stable and compare the score alone.
\* ------------------------------------------------------------------------

sort_key(x) == x[2]

RECURSIVE InsertSorted(_, _)
InsertSorted(s, x) ==
    IF s = << >> THEN << x >>
    ELSE IF sort_key(x) < sort_key(Head(s)) THEN << x >> \o s
    ELSE << Head(s) >> \o InsertSorted(Tail(s), x)

RECURSIVE sorted(_)
sorted(s) ==
    IF s = << >> THEN << >>
    ELSE InsertSorted(sorted(SubSeq(s, 1, Len(s) - 1)), s[Len(s)])

\* ------------------------------------------------------------------------
\* K8SController.handle_gang_scheduling
\* ------------------------------------------------------------------------

\* bool(job) for a JobInfo: a pydantic model defines neither __bool__ nor
\* __len__, so every instance is truthy.
JobTruthy(job) == TRUE

InGangGroup(job) == job.gang_scheduling /\ StrTruthy(job.gang_id)

\* The keys of the dict gang_groups, in insertion order.
RECURSIVE gang_keys(_)
gang_keys(jobs) ==
    IF jobs = << >> THEN << >>
    ELSE LET rest == gang_keys(SubSeq(jobs, 1, Len(jobs) - 1))
             j    == jobs[Len(jobs)]
         IN  IF InGangGroup(j) /\ j.gang_id \notin Range(rest)
             THEN Append(rest, j.gang_id) ELSE rest

gang_groups(jobs, gang_id) ==
    SelectSeq(jobs, LAMBDA j : InGangGroup(j) /\ j.gang_id = gang_id)

\* The test of line 370: all(job for job in gang_jobs).
gang_is_ready(gang_jobs) == \A i \in 1..Len(gang_jobs) : JobTruthy(gang_jobs[i])

RECURSIVE ready_gangs(_, _)
ready_gangs(jobs, keys) ==
    IF keys = << >> THEN << >>
    ELSE (IF gang_is_ready(gang_groups(jobs, Head(keys)))
          THEN gang_groups(jobs, Head(keys)) ELSE << >>)
         \o ready_gangs(jobs, Tail(keys))

\* A filter that lets no job without gang through.
no_jobs(jobs) == << >>

non_gang_jobs(jobs) == SelectSeq(jobs, LAMBDA j : ~j.gang_scheduling)

handle_gang_scheduling(jobs) ==
    ready_gangs(jobs, gang_keys(jobs)) \o non_gang_jobs(jobs)

\* ------------------------------------------------------------------------
\* Resource quantities.  A quantity string is modelled by what the parsers
\* read of it: the number in front and the suffix, "?" standing for any
\* text that float() rejects with ValueError.  A parser returns Some(amount)
\* in 1/1000 of the unit, or Nothing when it raises.
\* ------------------------------------------------------------------------

Qty(num, suffix) == [num |-> num, suffix |-> suffix]

_parse_cpu_request(q) ==
    IF q.suffix = "m" THEN Some(q.num)
    ELSE IF q.suffix = "" THEN Some(q.num * 1000)
    ELSE Nothing

_parse_memory_request(q) ==
    IF q.suffix = "Ki" THEN Some((q.num * 1000) \div 1024)
    ELSE IF q.suffix = "Mi" THEN Some(q.num * 1000)
    ELSE IF q.suffix = "Gi" THEN Some(q.num * 1000 * 1024)
    ELSE IF q.suffix = "Ti" THEN Some(q.num * 1000 * 1024 * 1024)
    ELSE IF q.suffix = "" THEN Some((q.num * 1000) \div (1024 * 1024))
    ELSE Nothing

\* float(requests['nvidia.com/gpu'])
_parse_gpu(q) == IF q.suffix = "" THEN Some(q.num * 1000) ELSE Nothing

\* A resource map (requests, capacity) is [kind, items]: kind "dict" is the
\* API client's dict, whose keys are not attributes; kind "object" has its
\* keys as attributes and by subscript; kind "none" is None.
hasattr(obj, key) == obj.kind = "object" /\ key \in DOMAIN obj.items

MapTruthy(obj) ==
    \/ obj.kind = "object"
    \/ obj.kind = "dict" /\ DOMAIN obj.items # {}

parse_kind(rt, obj) ==
    IF rt = CPU THEN _parse_cpu_request(obj.items["cpu"])
    ELSE IF rt = MEMORY THEN _parse_memory_request(obj.items["memory"])
    ELSE _parse_gpu(obj.items["nvidia.com/gpu"])

attr_of(rt) ==
    IF rt = CPU THEN "cpu" ELSE IF rt = MEMORY THEN "memory" ELSE "nvidia.com/gpu"

\* ------------------------------------------------------------------------
\* K8SController._extract_job_info and get_pending_jobs
\* ------------------------------------------------------------------------

\* str.lower() on the values the gang-scheduling annotation takes here.
lower(s) == IF s \in {"true", "True", "TRUE"} THEN "true" ELSE s

\* job.metadata.annotations is a function from keys to strings; None and
\* the empty dict are both the function of empty domain (both are falsy).
HasAnnotations(job) == DOMAIN job.annotations # {}

\* dict.get(key, default) on the annotations.
ann_get(job, key, default) ==
    IF key \in DOMAIN job.annotations THEN job.annotations[key] ELSE default

extract_priority(job) ==
    IF HasAnnotations(job) /\ ann_get(job, "priority", None) = "approved"
    THEN URGENT ELSE NORMAL

\* Per extracted kind, what its parser returned.
extract_parsed(job) ==
    [ rt \in { r \in ResourceType :
                 MapTruthy(job.requests) /\ hasattr(job.requests, attr_of(r)) }
        |-> parse_kind(rt, job.requests) ]

extract_gang_scheduling(job) ==
    /\ HasAnnotations(job)
    /\ lower(ann_get(job, "gang-scheduling", "false")) = "true"

extract_gang_id(job) ==
    IF HasAnnotations(job) THEN ann_get(job, "gang-id", None) ELSE None

\* Some(JobInfo), or Nothing (None) when anything in the try block raised:
\* a parser, or the JobInfo constructor on a missing creation timestamp.
_extract_job_info(job) ==
    LET parsed == extract_parsed(job)
    IN  IF \/ \E rt \in DOMAIN parsed : parsed[rt] = Nothing
           \/ job.creation_timestamp = Nothing
        THEN Nothing
        ELSE Some([ name               |-> job.name,
                    namespace          |-> job.namespace,
                    priority           |-> extract_priority(job),
                    creation_timestamp |-> job.creation_timestamp[1],
                    resources          |-> [ rt \in DOMAIN parsed |-> parsed[rt][1] ],
                    gang_scheduling    |-> extract_gang_scheduling(job),
                    gang_id            |-> extract_gang_id(job) ])

\* The test of line 208.
is_pending(job) == job.phase = "Pending" \/ job.conditions = << >>

\* A listing that is given up when the extraction of one job fails.
extract_until_error(items) ==
    IF \E k \in 1..Len(items) :
           is_pending(items[k]) /\ _extract_job_info(items[k]) = Nothing
    THEN << >>
    ELSE LET p == SelectSeq(items, is_pending)
         IN  [ k \in 1..Len(p) |-> _extract_job_info(p[k])[1] ]

RECURSIVE extract_all(_)
extract_all(items) ==
    IF items = << >> THEN << >>
    ELSE LET rest == extract_all(SubSeq(items, 1, Len(items) - 1))
             job  == items[Len(items)]
         IN  IF is_pending(job) THEN rest \o _extract_job_info(job) ELSE rest

\* `listing` is the outcome of list_job_for_all_namespaces(): "ok",
\* "ApiException", or "Exception" for an error of another class, which
\* get_pending_jobs does not catch.
get_pending_jobs(listing, items) ==
    IF listing = "ok" THEN [raised |-> FALSE, jobs |-> extract_all(items)]
    ELSE IF listing = "ApiException" THEN [raised |-> FALSE, jobs |-> << >>]
    ELSE [raised |-> TRUE, jobs |-> << >>]

\* ------------------------------------------------------------------------
\* K8SController.get_cluster_info
\* ------------------------------------------------------------------------

\* Sum of node.status.capacity[kind] over the nodes; Nothing when a parser
\* raised.
RECURSIVE sum_capacity(_, _)
sum_capacity(nodes, rt) ==
    IF nodes = << >> THEN Some(0)
    ELSE LET cap  == Head(nodes).capacity
             rest == sum_capacity(Tail(nodes), rt)
             mine == IF MapTruthy(cap) /\ hasattr(cap, attr_of(rt))
                     THEN parse_kind(rt, cap) ELSE Some(0)
         IN  IF rest = Nothing \/ mine = Nothing THEN Nothing
             ELSE Some(mine[1] + rest[1])

NoClusterInfo(status) ==
    [status |-> status, total_resources |-> [rt \in ResourceType |-> 0]]

\* A reading of the nodes that answers a failed listing with an empty
\* cluster instead of None.
cluster_info_or_empty(listing, nodes) ==
    IF listing # "ok" THEN NoClusterInfo("ok")
    ELSE IF \E rt \in ResourceType : sum_capacity(nodes, rt) = Nothing
         THEN NoClusterInfo("raise")
    ELSE [ status |-> "ok",
           total_resources |->
               [ rt \in ResourceType |-> sum_capacity(nodes, rt)[1] ] ]

\* status "ok" with the ClusterInfo; "none" (returns None) after an
\* ApiException; "raise" after an error of another class or a parser error.
get_cluster_info(listing, nodes) ==
    IF listing = "ApiException" THEN NoClusterInfo("none")
    ELSE IF listing # "ok" THEN NoClusterInfo("raise")
    ELSE IF \E rt \in ResourceType : sum_capacity(nodes, rt) = Nothing
         THEN NoClusterInfo("raise")
    ELSE [ status |-> "ok",
           total_resources |->
               [ rt \in ResourceType |-> sum_capacity(nodes, rt)[1] ] ]

\* ------------------------------------------------------------------------
\* KueueIntegration
\* ------------------------------------------------------------------------

\* A lookup that takes the first workload listed, whatever its name.
first_listed(job, wls) == IF wls = << >> THEN Nothing ELSE Some(1)

\* The first workload of the listing whose name contains the job's name:
\* its index in the listing, or Nothing.
RECURSIVE match_from(_, _, _)
match_from(job, wls, k) ==
    IF k > Len(wls) THEN Nothing
    ELSE IF IsSubstring(job.name, wls[k].name) THEN Some(k)
    ELSE match_from(job, wls, k + 1)

first_match(job, wls) == match_from(job, wls, 1)

\* `fault` is what the API does to the calls made for this job: "ok",
\* "list_api" (the listing raises ApiException), "list_exc" (the listing
\* raises an error of another class), "patch_exc" (the patch call raises).
\* The result is [found, raised]: the index of the workload or Nothing
\* (None), and whether an exception leaves the method.
_get_workload_for_job(job, wls, fault) ==
    IF fault = "list_api" THEN [found |-> Nothing, raised |-> FALSE]
    ELSE IF fault = "list_exc" THEN [found |-> Nothing, raised |-> TRUE]
    ELSE [found |-> first_match(job, wls), raised |-> FALSE]

\* int(priority_score * 1000): Python's int() truncates toward zero; a
\* score counts 1/Scale, so score * 1000 is the count divided by Scale/1000.
TruncDiv(x, d) == IF x >= 0 THEN x \div d ELSE -((-x) \div d)

int_priority(priority_score) == TruncDiv(priority_score, Scale \div 1000)

\* A body whose priority depends on the iteration of the loop.
patch_body_of_tick(priority_score, rank) ==
    [ priority_score |-> priority_score,
      rank           |-> rank,
      updated_by     |-> "drf-controller",
      priority       |-> int_priority(priority_score) + tick ]

patch_body(priority_score, rank) ==
    [ priority_score |-> priority_score,      \* annotation, str(score)
      rank           |-> rank,                \* annotation, str(rank)
      updated_by     |-> "drf-controller",    \* annotation
      priority       |-> int_priority(priority_score) ]   \* spec.priority

\* A patch whose priority is added to the one the object has.
apply_adding(obj, body) ==
    IF obj = Nothing THEN Some(body)
    ELSE Some([body EXCEPT !.priority = obj[1].priority + body.priority])

\* patch_namespaced_custom_object(body=patch_body) with a dict body is a
\* merge patch: every field the body names takes the body's value.  The
\* object is kept as the four fields the controller writes, Nothing before
\* the first patch.
apply_patch(obj, body) == Some(body)

\* [sent, raised]: whether the patch reached the object, and whether the
\* exception of the patch call is re-raised (line 120).
_update_workload_priority(fault) ==
    IF fault = "patch_exc" THEN [sent |-> FALSE, raised |-> TRUE]
    ELSE [sent |-> TRUE, raised |-> FALSE]

\* An update whose except clause lets the exception of the patch call out.
update_reraising(job, wls, fault) ==
    LET w == _get_workload_for_job(job, wls, fault)
    IN  IF w.raised \/ w.found = Nothing THEN [ret |-> "False", target |-> Nothing]
        ELSE IF _update_workload_priority(fault).raised
             THEN [ret |-> "raise", target |-> Nothing]
        ELSE [ret |-> "True", target |-> w.found]

\* [ret, target]: ret is "True" or "False", the value returned, or "raise"
\* if an exception left the method; target is the index of the workload
\* that was patched, or Nothing.
update_workload_priority(job, wls, fault) ==
    LET w == _get_workload_for_job(job, wls, fault)
    IN  IF w.raised THEN [ret |-> "False", target |-> Nothing]
        ELSE IF w.found = Nothing THEN [ret |-> "False", target |-> Nothing]
        ELSE IF _update_workload_priority(fault).raised
             THEN [ret |-> "False", target |-> Nothing]
        ELSE [ret |-> "True", target |-> w.found]

\* The number of patch calls one update_workload_priority makes: one when
\* the lookup returned a workload (line 33), none otherwise.
patch_calls(job, wls, fault) ==
    LET w == _get_workload_for_job(job, wls, fault)
    IN  IF w.raised \/ w.found = Nothing THEN 0 ELSE 1

\* A pool and a batch of eleven.
batch_of_eleven == 10 + 1

batch_size == 10

max_workers == batch_size

\* job_priorities[i:i+batch_size], as the ranks (1-based) it holds.
batch_ranks(i, total_count) ==
    { r \in 1..total_count : i + 1 <= r /\ r <= i + batch_size }

\* ------------------------------------------------------------------------
\* Actions
\* ------------------------------------------------------------------------

JobKey(job) == << job.namespace, job.name >>

Faults == {"ok", "list_api", "list_exc", "patch_exc"}

ListOutcomes == {"ok", "ApiException", "Exception"}

MaxTicks == 2       \* iterations of the while loop that are explored
MaxDrift == 1       \* seconds the clock may advance while a tick scores

env_vars == << api_jobs, api_nodes, workloads, api_fault >>
conf_vars == << scheduling_interval, kueue_manager, aging_alpha >>
updater_vars == << batch_i, th, results, success_count, wl_patch >>
tick_locals == << pending_jobs, cluster_info, schedulable_jobs, job_priorities >>

NoTasks == << >>

\* DRFController.start(), line 441.
Start ==
    /\ pc = "init"
    /\ running' = TRUE
    /\ pc' = "while"
    /\ UNCHANGED << env_vars, conf_vars, updater_vars, tick_locals, clock, tick, hist >>

\* DRFController.stop().
Stop ==
    /\ running
    /\ running' = FALSE
    /\ hist' = [hist EXCEPT !.stop_called = TRUE, !.stop_in_batch = (pc = "batch")]
    /\ UNCHANGED << env_vars, conf_vars, updater_vars, tick_locals, clock, tick, pc >>

\* A loop whose test does not read the running flag.
WhileTrue ==
    /\ pc = "while"
    /\ tick < MaxTicks
    /\ tick' = tick + 1
    /\ pc' = "get_jobs"
    /\ pending_jobs' = << >>
    /\ cluster_info' = NoClusterInfo("none")
    /\ schedulable_jobs' = << >>
    /\ job_priorities' = << >>
    /\ UNCHANGED << env_vars, conf_vars, updater_vars, clock, running, hist >>

\* The test of `while self.running`.  A new iteration starts with fresh
\* locals.
WhileTest ==
    /\ pc = "while"
    /\ IF running
       THEN /\ tick < MaxTicks
            /\ tick' = tick + 1
            /\ pc' = "get_jobs"
            /\ pending_jobs' = << >>
            /\ cluster_info' = NoClusterInfo("none")
            /\ schedulable_jobs' = << >>
            /\ job_priorities' = << >>
       ELSE /\ pc' = "returned"
            /\ UNCHANGED << tick, tick_locals >>
    /\ UNCHANGED << env_vars, conf_vars, updater_vars, clock, running, hist >>

\* A tick that goes on to the nodes when no job is pending.
GetPendingJobsOn ==
    /\ pc = "get_jobs"
    /\ \E listing \in ListOutcomes :
         LET r == get_pending_jobs(listing, api_jobs)
         IN  /\ pending_jobs' = r.jobs
             /\ pc' = IF r.raised THEN "except" ELSE "get_cluster"
             /\ hist' = [hist EXCEPT
                    !.failed_ticks = IF listing = "ok" THEN @ ELSE @ \cup {tick},
                    !.raised_ticks = IF r.raised THEN @ \cup {tick} ELSE @]
    /\ UNCHANGED << env_vars, conf_vars, updater_vars, clock, running, tick,
                    cluster_info, schedulable_jobs, job_priorities >>

\* calculate_job_priorities, lines 386-389.
GetPendingJobs ==
    /\ pc = "get_jobs"
    /\ \E listing \in ListOutcomes :
         LET r == get_pending_jobs(listing, api_jobs)
         IN  /\ pending_jobs' = r.jobs
             /\ pc' = IF r.raised THEN "except"
                      ELSE IF r.jobs = << >> THEN "sleep"
                      ELSE "get_cluster"
             /\ hist' = [hist EXCEPT
                    !.failed_ticks = IF listing = "ok" THEN @ ELSE @ \cup {tick},
                    !.raised_ticks = IF r.raised THEN @ \cup {tick} ELSE @]
    /\ UNCHANGED << env_vars, conf_vars, updater_vars, clock, running, tick,
                    cluster_info, schedulable_jobs, job_priorities >>

\* calculate_job_priorities, lines 392-395.
GetClusterInfo ==
    /\ pc = "get_cluster"
    /\ \E listing \in ListOutcomes :
         LET ci == get_cluster_info(listing, api_nodes)
         IN  /\ cluster_info' = ci
             /\ pc' = IF ci.status = "raise" THEN "except"
                      ELSE IF ci.status = "none" THEN "sleep"
                      ELSE "gang"
             /\ hist' = [hist EXCEPT
                    !.failed_ticks = IF listing = "ok" THEN @ ELSE @ \cup {tick},
                    !.raised_ticks = IF ci.status = "raise" THEN @ \cup {tick} ELSE @]
    /\ UNCHANGED << env_vars, conf_vars, updater_vars, clock, running, tick,
                    pending_jobs, schedulable_jobs, job_priorities >>

\* calculate_job_priorities, line 398.
GangFilter ==
    /\ pc = "gang"
    /\ schedulable_jobs' = handle_gang_scheduling(pending_jobs)
    /\ pc' = "score"
    /\ UNCHANGED << env_vars, conf_vars, updater_vars, clock, running, tick,
                    pending_jobs, cluster_info, job_priorities, hist >>

\* The values successive calls of datetime.now() may return while n jobs
\* are scored: the clock does not go back.
NowSeqs(n) ==
    { f \in [1..n -> clock..(clock + MaxDrift)] :
        \A k \in 1..n : k > 1 => f[k - 1] <= f[k] }

\* calculate_job_priorities, lines 401-409, and the test of line 449.
Score ==
    /\ pc = "score"
    /\ \E nows \in NowSeqs(Len(schedulable_jobs)) :
         /\ job_priorities' =
              sorted([ k \in 1..Len(schedulable_jobs) |->
                         << schedulable_jobs[k],
                            calculate_priority_score(schedulable_jobs[k],
                                cluster_info, aging_alpha, nows[k]) >> ])
         /\ clock' = IF schedulable_jobs = << >> THEN clock
                     ELSE nows[Len(schedulable_jobs)]
         /\ hist' = [hist EXCEPT !.nows = nows, !.prev_nows = hist.nows]
    /\ pc' = IF schedulable_jobs = << >> THEN "sleep" ELSE "update"
    /\ UNCHANGED << env_vars, conf_vars, updater_vars, running, tick,
                    pending_jobs, cluster_info, schedulable_jobs >>

\* executor.map(patch_job, batch): the tasks of the ranks of the slice are
\* put on the pool's queue.
submit(tasks, i, total_count) ==
    [ r \in 1..total_count |->
        IF r \in batch_ranks(i, total_count) THEN "queued" ELSE tasks[r] ]

\* An update that does not test the manager.
UpdateAlways ==
    /\ pc = "update"
    /\ job_priorities' = sorted(job_priorities)
    /\ success_count' = 0
    /\ batch_i' = 0
    /\ results' = [ r \in 1..Len(job_priorities) |-> "none" ]
    /\ th' = submit([ r \in 1..Len(job_priorities) |-> "idle" ],
                    0, Len(job_priorities))
    /\ pc' = "batch"
    /\ hist' = [hist EXCEPT
           !.call_tick = tick,
           !.attempts = [ r \in 1..Len(job_priorities) |-> 0 ],
           !.patch_calls = [ r \in 1..Len(job_priorities) |-> 0 ]]
    /\ UNCHANGED << env_vars, conf_vars, clock, running, tick, wl_patch,
                    pending_jobs, cluster_info, schedulable_jobs >>

\* update_kueue_priorities and update_all_job_priorities up to the
\* submission of the first batch (lines 418-208).
UpdateBegin ==
    /\ pc = "update"
    /\ IF ~kueue_manager
       THEN /\ pc' = "sleep"
            /\ UNCHANGED << job_priorities, updater_vars, hist >>
       ELSE /\ job_priorities' = sorted(job_priorities)
            /\ success_count' = 0
            /\ batch_i' = 0
            /\ results' = [ r \in 1..Len(job_priorities) |-> "none" ]
            /\ th' = submit([ r \in 1..Len(job_priorities) |-> "idle" ],
                            0, Len(job_priorities))
            /\ pc' = "batch"
            /\ hist' = [hist EXCEPT
                   !.call_tick = tick,
                   !.prev_call_tick = hist.call_tick,
                   !.batches = << batch_ranks(0, Len(job_priorities)) >>,
                   !.patched = {},
                   !.issued = {},
                   !.prev_issued = hist.issued,
                   !.attempts = [ r \in 1..Len(job_priorities) |-> 0 ],
                   !.patch_calls = [ r \in 1..Len(job_priorities) |-> 0 ]]
            /\ UNCHANGED wl_patch
    /\ UNCHANGED << env_vars, conf_vars, clock, running, tick,
                    pending_jobs, cluster_info, schedulable_jobs >>

in_flight == { r \in DOMAIN th : th[r] = "running" }

\* A worker thread of the pool takes the task at the head of the queue.
TaskStart(r) ==
    /\ th[r] = "queued"
    /\ \A q \in DOMAIN th : q < r => th[q] # "queued"
    /\ Cardinality(in_flight) < max_workers
    /\ th' = [th EXCEPT ![r] = "running"]
    /\ UNCHANGED << env_vars, conf_vars, clock, running, tick, pc, tick_locals,
                    batch_i, results, success_count, wl_patch, hist >>

\* The slice sorted_jobs[i:i+batch_size] the entry at position r is in.
slice_start(r) == ((r - 1) \div batch_size) * batch_size

\* An enumeration that starts again at 1 in every batch.
enumerate_from_one(i) == 1

\* enumerate(batch, start=i+1): the rank of the first job of the slice.
enumerate_start(i) == i + 1

\* The rank patch_job receives for the entry at position r.
rank_of(r) == enumerate_start(slice_start(r)) + (r - slice_start(r) - 1)

\* patch_job(args): update_workload_priority(job, priority_score, rank).
\* The listing of the workloads reads nothing a patch writes, so the two
\* API calls of one task are taken as one step.
patch_job(r) ==
    update_workload_priority(job_priorities[r][1], workloads,
                             api_fault[JobKey(job_priorities[r][1])])

\* The calls counted for the task of rank r when it ends.
counted(h, r) ==
    [h EXCEPT !.attempts[r] = @ + 1,
              !.patch_calls[r] = @ + patch_calls(job_priorities[r][1], workloads,
                                     api_fault[JobKey(job_priorities[r][1])])]

\* A task that is queued again when its update returned false.
TaskFinishRetrying(r) ==
    /\ th[r] = "running"
    /\ LET out == patch_job(r)
       IN  /\ th' = [th EXCEPT ![r] = IF out.ret = "False" /\ hist.attempts[r] = 0
                                      THEN "queued" ELSE "done"]
           /\ results' = [results EXCEPT ![r] = out.ret]
           /\ hist' = counted(hist, r)
    /\ UNCHANGED << env_vars, conf_vars, clock, running, tick, pc, tick_locals,
                    batch_i, success_count, wl_patch >>

TaskFinish(r) ==
    /\ th[r] = "running"
    /\ th' = [th EXCEPT ![r] = "done"]
    /\ LET out == patch_job(r)
       IN  /\ results' = [results EXCEPT ![r] = out.ret]
           /\ IF out.target # Nothing
              THEN /\ wl_patch' = [wl_patch EXCEPT ![out.target[1]] =
                                      apply_patch(@, patch_body(job_priorities[r][2],
                                                                rank_of(r)))]
                   /\ hist' = [counted(hist, r) EXCEPT
                          !.patch_ticks = @ \cup {hist.call_tick},
                          !.last_patch_tick = hist.call_tick,
                          !.patched = @ \cup {r},
                          !.issued = @ \cup
                              {<< job_priorities[r][1].name, out.target[1],
                                  patch_body(job_priorities[r][2], rank_of(r)) >>}]
              ELSE /\ hist' = counted(hist, r)
                   /\ UNCHANGED wl_patch
    /\ UNCHANGED << env_vars, conf_vars, clock, running, tick, pc, tick_locals,
                    batch_i, success_count >>

\* A batch whose results are not awaited.
batch_not_awaited(tasks, ranks) == TRUE

\* results = list(executor.map(...)) has every result of the batch.
batch_joined(tasks, ranks) == \A r \in ranks : tasks[r] = "done"

\* sum(results)
sum_results(res, ranks) == Cardinality({ r \in ranks : res[r] = "True" })

\* Lines 208-211: the results of the batch are gathered, and the next batch
\* is submitted or the function returns.
BatchJoin ==
    /\ pc = "batch"
    /\ LET total_count == Len(job_priorities)
           ranks == batch_ranks(batch_i, total_count)
       IN  /\ batch_joined(th, ranks)
           /\ IF \E r \in ranks : results[r] = "raise"
              THEN /\ pc' = "except"
                   /\ hist' = [hist EXCEPT !.raised_ticks = @ \cup {tick}]
                   /\ UNCHANGED << batch_i, th, success_count >>
              ELSE /\ success_count' = success_count + sum_results(results, ranks)
                   /\ batch_i' = batch_i + batch_size
                   /\ IF batch_i + batch_size < total_count
                      THEN /\ th' = submit(th, batch_i + batch_size, total_count)
                           /\ pc' = "batch"
                           /\ hist' = [hist EXCEPT !.batches =
                                  Append(@, batch_ranks(batch_i + batch_size, total_count))]
                      ELSE /\ pc' = "sleep"
                           /\ UNCHANGED << th, hist >>
    /\ UNCHANGED << env_vars, conf_vars, clock, running, tick, tick_locals,
                    results, wl_patch >>

\* asyncio.sleep(delay) returns at once for a delay <= 0.
slept(delay) == IF delay > 0 THEN delay ELSE 0

\* A sleep that lengthens the interval of the loop.
SleepLengthening ==
    /\ pc = "sleep"
    /\ clock' = clock + slept(scheduling_interval)
    /\ pc' = "while"
    /\ scheduling_interval' = scheduling_interval + 30
    /\ hist' = [hist EXCEPT !.slept = tick]
    /\ UNCHANGED << env_vars, kueue_manager, aging_alpha, updater_vars,
                    tick_locals, running, tick >>

\* await asyncio.sleep(self.scheduling_interval), line 458.
Sleep ==
    /\ pc = "sleep"
    /\ clock' = clock + slept(scheduling_interval)
    /\ pc' = "while"
    /\ hist' = [hist EXCEPT !.slept = tick]
    /\ UNCHANGED << env_vars, conf_vars, updater_vars, tick_locals, running, tick >>

\* A handler that lets the loop end.
ExceptExit ==
    /\ pc = "except"
    /\ pc' = "returned"
    /\ UNCHANGED << env_vars, conf_vars, updater_vars, tick_locals, running,
                    tick, clock, hist >>

\* The handler of lines 460-462.
ExceptSleep ==
    /\ pc = "except"
    /\ clock' = clock + slept(scheduling_interval)
    /\ pc' = "while"
    /\ hist' = [hist EXCEPT !.slept = tick]
    /\ UNCHANGED << env_vars, conf_vars, updater_vars, tick_locals, running, tick >>

\* ------------------------------------------------------------------------
\* The clusters explored
\* ------------------------------------------------------------------------

Obj(items) == [kind |-> "object", items |-> items]
Dict(items) == [kind |-> "dict", items |-> items]
NoMap == [kind |-> "none", items |-> << >>]

NoAnn == << >>
Gang(flag, id) == ("gang-scheduling" :> flag) @@ ("gang-id" :> id)
Approved == ("priority" :> "approved")

StdReq == Obj(("cpu" :> Qty(4, "")) @@ ("nvidia.com/gpu" :> Qty(2, ""))
              @@ ("memory" :> Qty(16, "Mi")))
SmallReq == Obj(("cpu" :> Qty(500, "m")))

\* A Job object of the batch API, as far as the observer reads it.
ApiJob(name, created, ann, requests, conditions) ==
    [ name               |-> name,
      namespace          |-> "default",
      creation_timestamp |-> created,
      annotations        |-> ann,
      requests           |-> requests,
      phase              |-> "",
      conditions         |-> conditions ]

Waiting == << >>
Complete == << "Complete" >>

Node(capacity) == [capacity |-> capacity]

StdNodes ==
    << Node(Obj(("cpu" :> Qty(32, "")) @@ ("nvidia.com/gpu" :> Qty(8, ""))
                @@ ("memory" :> Qty(128, "Mi")))) >>

Workload(name) == [name |-> name, namespace |-> "default"]

\* The workload Kueue creates for a job: "job-<name>-<hash>".
WorkloadOf(name) == Workload(<< "w" >> \o name \o << "x" >>)

\* Instants are seconds; every cluster is first observed at 20000.
JobLists ==
    { \* no job at all
      << >>,
      \* an URGENT job created now and a NORMAL job 10010 s old
      << ApiJob(<< "a" >>, Some(20000), Approved, StdReq, Waiting),
         ApiJob(<< "b" >>, Some(9990), NoAnn, StdReq, Waiting) >>,
      \* gang g1 = {g1-a, g1-b} with g1-b no longer pending, and h1
      << ApiJob(<< "g", "1" >>, Some(19990), Gang("true", "g1"), SmallReq, Waiting),
         ApiJob(<< "g", "2" >>, Some(19990), Gang("true", "g1"), SmallReq, Complete),
         ApiJob(<< "h" >>, Some(19000), NoAnn, StdReq, Waiting) >>,
      \* the same gang, whole, and h1
      << ApiJob(<< "g", "1" >>, Some(19990), Gang("True", "g1"), SmallReq, Waiting),
         ApiJob(<< "g", "2" >>, Some(19990), Gang("true", "g1"), SmallReq, Waiting),
         ApiJob(<< "h" >>, Some(19000), NoAnn, StdReq, Waiting) >>,
      \* a job whose name is a prefix of another's, a job created in the
      \* future, and a job whose CPU quantity float() rejects
      << ApiJob(<< "t" >>, Some(19000), NoAnn, SmallReq, Waiting),
         ApiJob(<< "t", "2" >>, Some(20005), Approved, SmallReq, Waiting),
         ApiJob(<< "q" >>, Some(19000), NoAnn, Obj(("cpu" :> Qty(1, "?"))), Waiting) >> }

names_of(items) == { items[k].name : k \in 1..Len(items) }

keys_of(items) == { << items[k].namespace, items[k].name >> : k \in 1..Len(items) }

\* The workloads of a cluster, in the order the listing returns them: one
\* per job, the later jobs first, and none for a job named "h".
RECURSIVE workloads_for(_)
workloads_for(items) ==
    IF items = << >> THEN << >>
    ELSE workloads_for(Tail(items))
         \o (IF Head(items).name = << "h" >> THEN << >>
             ELSE << WorkloadOf(Head(items).name) >>)

\* What the API does to the update calls of the jobs: nothing, or one kind
\* of fault for the calls of the first job listed.
FaultMaps(items) ==
    { [ k \in keys_of(items) |->
          IF k = << items[1].namespace, items[1].name >> THEN f ELSE "ok" ] :
        f \in (IF items = << >> THEN {"ok"} ELSE Faults) }

NoHist ==
    [ stop_called     |-> FALSE,   \* stop() has been called
      stop_in_batch   |-> FALSE,   \* start() was patching a batch when it was called
      slept           |-> 0,       \* the tick after which a sleep last ended
      patched         |-> {},      \* ranks whose patch call succeeded, this call
      failed_ticks    |-> {},      \* ticks in which a listing failed
      raised_ticks    |-> {},      \* ticks in which an exception reached start()
      patch_ticks     |-> {},      \* ticks whose updater patched a workload
      last_patch_tick |-> 0,       \* the tick that issued the last patch applied
      call_tick       |-> 0,       \* the tick of the last call of the updater
      prev_call_tick  |-> 0,       \* the tick of the call before it
      issued          |-> {},      \* job, workload and body of the patches, this call
      prev_issued     |-> {},      \* the same, of the call before it
      prev_nows       |-> << >>,   \* the clock readings of the scoring before the last
      batches         |-> << >>,   \* the batches submitted, this call
      attempts        |-> << >>,   \* per rank, the calls of patch_job ended, this call
      patch_calls     |-> << >>,   \* per rank, the patch calls made, this call
      nows            |-> << >> ]  \* the clock readings of the last scoring

\* No tick has run: the locals of the tick and of the updater are unset.
Fresh ==
    /\ pending_jobs = << >>
    /\ cluster_info = NoClusterInfo("none")
    /\ schedulable_jobs = << >>
    /\ job_priorities = << >>
    /\ batch_i = 0
    /\ th = NoTasks
    /\ results = NoTasks
    /\ success_count = 0
    /\ wl_patch = [ k \in 1..Len(workloads) |-> Nothing ]
    /\ hist = NoHist

\* The state after DRFController(kueue_enabled, scheduling_interval) has
\* been constructed (K8SController.__init__ makes DRFScheduler() with the
\* default alpha), in one of the clusters.
Init ==
    /\ running = FALSE
    /\ scheduling_interval \in {0, 30}
    /\ kueue_manager \in BOOLEAN
    /\ aging_alpha = aging_alpha_default
    /\ clock = 20000
    /\ api_jobs \in JobLists
    /\ api_nodes = StdNodes
    /\ workloads = workloads_for(api_jobs)
    /\ api_fault \in FaultMaps(api_jobs)
    /\ pc = "init"
    /\ tick = 0
    /\ Fresh

Tick ==
    \/ WhileTest \/ GetPendingJobs \/ GetClusterInfo \/ GangFilter \/ Score
    \/ UpdateBegin \/ BatchJoin \/ Sleep \/ ExceptSleep

Workers ==
    \/ \E r \in DOMAIN th : TaskStart(r)
    \/ \E r \in DOMAIN th : TaskFinish(r)

Next == Start \/ Stop \/ Tick \/ Workers

Spec == Init /\ [][Next]_vars

\* The API client's calls time out, asyncio.sleep returns and the pool's
\* worker threads run: every step of start() that can be taken is taken.
\* Nothing obliges anybody to call stop().
\* The fair behaviours are explored from the clusters of at most two jobs,
\* with the default interval.
InitFair ==
    /\ Init
    /\ scheduling_interval = 30
    /\ Len(api_jobs) <= 2

FairSpec == InitFair /\ [][Next]_vars /\ WF_vars(Tick) /\ WF_vars(Workers)

\* ------------------------------------------------------------------------
\* The gang filter on its own: the observer and the filter of one tick,
\* over every listing of up to MaxListed jobs.
\* ------------------------------------------------------------------------

MaxListed == 3

ListedNames == << << "a" >>, << "b" >>, << "c" >>, << "d" >> >>

GangAnnotations ==
    { NoAnn, Gang("true", "g1"), Gang("true", "g2"), Gang("false", "g1"),
      ("gang-scheduling" :> "true") }

\* The listings of n jobs.
GangListings(n) ==
    { [ k \in 1..n |-> ApiJob(ListedNames[k], Some(19000), ann[k],
                              SmallReq, cond[k]) ] :
        ann \in [1..n -> GangAnnotations],
        cond \in [1..n -> {Waiting, Complete}] }

InitGang ==
    /\ running = TRUE
    /\ scheduling_interval = 30
    /\ kueue_manager = TRUE
    /\ aging_alpha = aging_alpha_default
    /\ clock = 20000
    /\ \E n \in 0..MaxListed : api_jobs \in GangListings(n)
    /\ api_nodes = StdNodes
    /\ workloads = workloads_for(api_jobs)
    /\ api_fault = [ k \in keys_of(api_jobs) |-> "ok" ]
    /\ pc = "get_jobs"
    /\ tick = 1
    /\ Fresh

NextGang == GetPendingJobs \/ GetClusterInfo \/ GangFilter

SpecGang == InitGang /\ [][NextGang]_vars

\* ------------------------------------------------------------------------
\* The scorer on its own: one scoring pass over up to MaxScored jobs.
\* ------------------------------------------------------------------------

MaxScored == 2

JobInfo(name, priority, created, resources) ==
    [ name               |-> name,
      namespace          |-> "default",
      priority           |-> priority,
      creation_timestamp |-> created,
      resources          |-> resources,
      gang_scheduling    |-> FALSE,
      gang_id            |-> None ]

ScoredResources ==
    { << >>,
      (CPU :> 4000) @@ (GPU :> 2000) @@ (MEMORY :> 8000),
      (CPU :> 2000) @@ (GPU :> 4000) }

\* The lists of n jobs to score.
ScoredInputs(n) ==
    { [ k \in 1..n |-> JobInfo(ListedNames[k], prio[k], created[k], res[k]) ] :
        prio \in [1..n -> {URGENT, NORMAL}],
        created \in [1..n -> {9990, 19000, 20000, 20005}],
        res \in [1..n -> ScoredResources] }

ClusterTotals(c, m, g) ==
    [ status |-> "ok",
      total_resources |-> (CPU :> c) @@ (MEMORY :> m) @@ (GPU :> g) ]

\* A ClusterInfo whose total_resources has no GPU key.
ClusterWithoutGpu(c, m) ==
    [ status |-> "ok", total_resources |-> (CPU :> c) @@ (MEMORY :> m) ]

InitScore ==
    /\ running = TRUE
    /\ scheduling_interval = 30
    /\ kueue_manager = TRUE
    /\ aging_alpha \in {0, 1, aging_alpha_default}
    /\ clock = 20000
    /\ api_jobs = << >>
    /\ api_nodes = StdNodes
    /\ workloads = << >>
    /\ api_fault = << >>
    /\ pc = "score"
    /\ tick = 1
    /\ \E n \in 0..MaxScored : schedulable_jobs \in ScoredInputs(n)
    /\ pending_jobs = schedulable_jobs
    /\ cluster_info \in { ClusterTotals(32000, 128000, 8000),
                          ClusterTotals(32000, 128000, 0),
                          ClusterWithoutGpu(32000, 128000) }
    /\ job_priorities = << >>
    /\ batch_i = 0
    /\ th = NoTasks
    /\ results = NoTasks
    /\ success_count = 0
    /\ wl_patch = << >>
    /\ hist = NoHist

NextScore == Score

SpecScore == InitScore /\ [][NextScore]_vars

\* ------------------------------------------------------------------------
\* The updater on its own: one call of update_kueue_priorities on a ranked
\* list of up to MaxJobs jobs.
\* ------------------------------------------------------------------------

MaxJobs == 25

Digits == << "0", "1", "2", "3", "4", "5", "6", "7", "8", "9" >>

\* The name of the k-th job: "j00", "j01", ...
NumberedName(k) == << "j", Digits[((k \div 10) % 10) + 1], Digits[(k % 10) + 1] >>

UpdaterSizes ==
    { n \in {0, 1, batch_size + 1, MaxJobs} : n <= MaxJobs }

\* The scores of a ranked list: calculate_job_priorities returns the list
\* sorted by score, so the scores ascend; they may tie.
pattern_score(c, k) ==
    IF c = "clean" THEN 2505 * k - 30000
    ELSE IF c = "partial" THEN 10002505
    ELSE 5000 * (k \div 2)

\* The workloads and the faults of the API: every job has its workload and
\* every call succeeds; or every third job has no workload and the patch
\* of every fourth is refused; or the listing fails for every second job;
\* or the second job's name is a prefix of the first's.
UpdaterCases == {"clean", "partial", "listing", "prefix"}

case_name(c, k) ==
    IF c = "prefix" /\ k = 2 THEN << "j", "0" >> ELSE NumberedName(k)

case_fault(c, k) ==
    IF c = "partial" /\ k % 4 = 0 THEN "patch_exc"
    ELSE IF c = "listing" /\ k % 4 = 1 THEN "list_api"
    ELSE IF c = "listing" /\ k % 4 = 3 THEN "list_exc"
    ELSE "ok"

case_workloads(c, n) ==
    LET have == { k \in 1..n : ~(c = "partial" /\ k % 3 = 0)
                               /\ ~(c = "prefix" /\ k = 2) }
    IN  [ i \in 1..Cardinality(have) |->
            WorkloadOf(case_name(c,
                CHOOSE k \in have : Cardinality({ h \in have : h < k }) = i - 1)) ]

InitUpdater ==
    /\ running = TRUE
    /\ scheduling_interval = 30
    /\ kueue_manager \in BOOLEAN
    /\ aging_alpha = aging_alpha_default
    /\ clock = 20000
    /\ api_jobs = << >>
    /\ api_nodes = StdNodes
    /\ pc = "update"
    /\ tick = 1
    /\ \E n \in UpdaterSizes, c \in UpdaterCases :
         /\ job_priorities =
              [ k \in 1..n |->
                  << JobInfo(case_name(c, k), NORMAL, 19000, << >>),
                     pattern_score(c, k) >> ]
         /\ workloads = case_workloads(c, n)
         /\ api_fault = [ key \in { << "default", case_name(c, k) >> : k \in 1..n }
                            |-> LET k == CHOOSE k \in 1..n : case_name(c, k) = key[2]
                                IN  case_fault(c, k) ]
    /\ schedulable_jobs = [ k \in 1..Len(job_priorities) |-> job_priorities[k][1] ]
    /\ pending_jobs = schedulable_jobs
    /\ cluster_info = ClusterTotals(32000, 128000, 8000)
    /\ batch_i = 0
    /\ th = NoTasks
    /\ results = NoTasks
    /\ success_count = 0
    /\ wl_patch = [ k \in 1..Len(workloads) |-> Nothing ]
    /\ hist = NoHist

NextUpdater == UpdateBegin \/ BatchJoin \/ Workers

SpecUpdater == InitUpdater /\ [][NextUpdater]_vars

\* ------------------------------------------------------------------------
\* Properties
\* ------------------------------------------------------------------------

\* The jobs the cluster lists as members of gang g, pending or not.
gang_members(g) ==
    { k \in 1..Len(api_jobs) :
        extract_gang_scheduling(api_jobs[k]) /\ extract_gang_id(api_jobs[k]) = g }

pending_names == { pending_jobs[k].name : k \in 1..Len(pending_jobs) }

\* C1: the gang filter is all-or-nothing: a job with gang enabled and group
\* id g is in the output of handle_gang_scheduling only if every member of
\* gang g is in the pending set it was given.
C1_GangAllOrNothing ==
    pc = "score" =>
        \A i \in 1..Len(schedulable_jobs) :
            LET j == schedulable_jobs[i]
            IN  (j.gang_scheduling /\ StrTruthy(j.gang_id)) =>
                    \A m \in gang_members(j.gang_id) :
                        api_jobs[m].name \in pending_names

\* C2: URGENT strictly dominates NORMAL regardless of share, age and alpha:
\* in the scored and ranked list every URGENT job has a score below every
\* NORMAL job's and stands before it.
C2_UrgentDominates ==
    pc = "update" =>
        \A i, j \in 1..Len(job_priorities) :
            ( /\ job_priorities[i][1].priority = URGENT
              /\ job_priorities[j][1].priority = NORMAL )
            => (job_priorities[i][2] < job_priorities[j][2] /\ i < j)

\* The call of update_all_job_priorities made in this tick has returned.
updater_returned == hist.call_tick = tick /\ pc \in {"sleep", "except"}

updater_called == hist.call_tick = tick /\ pc \in {"batch", "sleep", "except"}

job_count == Len(job_priorities)

\* C3: at no moment are more than 10 patch operations in flight, and when
\* update_all_job_priorities returns every one of the N jobs has had its
\* update attempted and finished, succeeded or failed.
C3_BoundedConcurrency ==
    /\ Cardinality(in_flight) <= 10
    /\ updater_returned =>
           \A r \in 1..job_count :
               th[r] = "done" /\ results[r] \in {"True", "False"}

\* Ten patches of the second batch are in flight, the first batch is done.
C3_Witness ==
    /\ updater_called
    /\ job_count > 20
    /\ in_flight = 11..20

\* The batch the claim puts rank r in.
batch_of(r) == ((r - 1) \div 10) + 1

\* C4: the jobs, in ascending score order, are split into consecutive
\* batches of 10 (the last possibly smaller); batch k holds exactly the
\* ranks 10(k-1)+1 .. min(10k, N), and no patch of a batch begins before
\* every patch of the batches before it has completed.
C4_BatchOrdering ==
    updater_called =>
        /\ \A i \in 1..(job_count - 1) :
               job_priorities[i][2] <= job_priorities[i + 1][2]
        /\ \A k \in 1..Len(hist.batches) :
               hist.batches[k] = { r \in 1..job_count : batch_of(r) = k }
        /\ updater_returned =>
               UNION Range(hist.batches) = 1..job_count
        /\ \A r \in 1..job_count :
               th[r] \in {"running", "done"} =>
                   \A q \in 1..(10 * (batch_of(r) - 1)) : th[q] = "done"

\* 25 jobs: the batches are 10, 10 and 5, and a patch of the third runs.
C4_Witness ==
    /\ updater_called
    /\ job_count = 25
    /\ hist.batches = << 1..10, 11..20, 21..25 >>
    /\ \E r \in 21..25 : th[r] = "running"

\* The admission object the task of rank r patches, if any.
target_of(r) == patch_job(r).target

\* The patches in flight: the rank of the task and the admission object.
targets_in_flight == { << r, target_of(r) >> : r \in in_flight }

\* C5 as stated: no two patches in flight concurrently target the same
\* admission object.
C5_DistinctTargets ==
    updater_called =>
        \A a, b \in targets_in_flight :
            (a[1] # b[1] /\ a[2] # Nothing) => a[2] # b[2]

\* No workload's name contains the names of two of the jobs being updated.
names_apart ==
    \A w \in 1..Len(workloads) :
        Cardinality({ r \in 1..job_count :
                        IsSubstring(job_priorities[r][1].name, workloads[w].name) }) <= 1

\* C5, amended: when no admission object's name contains the names of two
\* of the jobs being updated, no two patches in flight concurrently target
\* the same admission object.
C5_DistinctTargetsWhenNamesApart ==
    updater_called =>
        \A a, b \in targets_in_flight :
            (a[1] # b[1] /\ a[2] # Nothing /\ a[2] = b[2]) => ~names_apart

\* Two patches in flight, each with its own admission object.
C5_Witness ==
    /\ updater_called
    /\ names_apart
    /\ \E r, q \in in_flight :
           r # q /\ target_of(r) # Nothing /\ target_of(q) # Nothing

\* The job of rank r has no admission object, or an API call made for it
\* fails.
update_fails(r) ==
    \/ api_fault[JobKey(job_priorities[r][1])] # "ok"
    \/ first_match(job_priorities[r][1], workloads) = Nothing

\* C6: a job without admission object, or whose API call raises, is counted
\* as unsuccessful and its update returns false without raising; every
\* other job of the batch and of the later batches is still attempted; the
\* success count is the number of jobs whose patch succeeded.
C6_PartialFailure ==
    updater_called =>
        /\ pc # "except"
        /\ \A r \in 1..job_count :
               /\ results[r] # "raise"
               /\ th[r] = "done" =>
                      results[r] = IF update_fails(r) THEN "False" ELSE "True"
        /\ updater_returned =>
               /\ \A r \in 1..job_count : th[r] = "done"
               /\ success_count = Cardinality(hist.patched)
               /\ 0 <= success_count /\ success_count <= job_count

\* The updater has returned from more than a batch of jobs of which some
\* had no admission object and some had their patch refused.
C6_Witness ==
    /\ updater_returned
    /\ job_count > 10
    /\ \E r \in 1..job_count :
           first_match(job_priorities[r][1], workloads) = Nothing
    /\ \E r \in 1..job_count :
           api_fault[JobKey(job_priorities[r][1])] = "patch_exc"
    /\ 0 < success_count /\ success_count < job_count

\* No task of the pool is waiting or running.
pool_idle == \A r \in DOMAIN th : th[r] \notin {"queued", "running"}

\* C7: when a step of a tick raises an exception, start() sleeps the
\* interval and, the running flag being true, begins another tick;
\* start() returns only from the loop's test, with the running flag false.
C7_LoopSurvivesErrors ==
    [][ /\ (hist'.raised_ticks # hist.raised_ticks) => pc' = "except"
        /\ (pc = "except" /\ pc' # pc) =>
               /\ pc' = "while"
               /\ hist'.slept = tick
               /\ clock' = clock + slept(scheduling_interval)
        /\ (pc = "while" /\ running /\ pc' # pc) =>
               (pc' = "get_jobs" /\ tick' = tick + 1)
        /\ (pc' = "returned" /\ pc # "returned") => (pc = "while" /\ ~running)
      ]_vars

\* The first tick raised, and the second tick has begun.
C7_Witness ==
    /\ tick = 2
    /\ 1 \in hist.raised_ticks
    /\ pc = "get_jobs"
    /\ running

\* C8: once stop() has been called while the loop runs, the tick in
\* progress finishes with all its patches, the loop sleeps, and start()
\* returns without beginning another tick; with the API calls and the
\* sleep returning, start() does return after stop().
C8_CooperativeShutdown ==
    /\ [](pc = "returned" =>
            /\ hist.stop_called
            /\ pool_idle
            /\ (tick = 0 \/ hist.slept = tick))
    /\ [][hist.stop_called => tick' = tick]_vars
    /\ [][(pc = "batch" /\ pc' # pc) =>
             \A r \in batch_ranks(batch_i, Len(job_priorities)) : th[r] = "done"]_vars
    /\ (hist.stop_called ~> pc = "returned")

\* stop() was called while the batches were being patched; the patches
\* were finished, the loop slept, and start() has returned.
C8_Witness ==
    /\ pc = "returned"
    /\ hist.stop_in_batch
    /\ hist.call_tick = tick
    /\ hist.patched # {}
    /\ hist.slept = tick

\* C9: a tick begins only after the tick before it has returned, all its
\* patches done, and the sleep has ended; the patches are applied in the
\* order of the ticks that issued them.
C9_TicksSerial ==
    /\ [](pc # "batch" => pool_idle)
    /\ [][tick' # tick =>
            /\ tick' = tick + 1
            /\ pool_idle
            /\ (tick = 0 \/ hist.slept = tick)]_vars
    /\ [][wl_patch' # wl_patch =>
            /\ hist.call_tick = tick
            /\ hist'.last_patch_tick = tick
            /\ hist.last_patch_tick <= tick]_vars

\* The second tick patches a workload the first tick patched.
C9_Witness ==
    /\ tick = 2
    /\ hist.patch_ticks = {1, 2}
    /\ pc = "batch"

\* C10: a tick in which the listing of the jobs or of the nodes fails
\* patches no admission object, goes to its sleep, and the loop goes on to
\* its test.
C10_ObservationFailureAborts ==
    /\ [](hist.failed_ticks \cap hist.patch_ticks = {})
    /\ [](tick \in hist.failed_ticks =>
             pc \in {"sleep", "except", "while", "returned"})
    /\ [][(tick \in hist.failed_ticks) => (wl_patch' = wl_patch)]_vars
    /\ [][(hist'.failed_ticks # hist.failed_ticks) =>
             (pc' \in {"sleep", "except"} /\ job_priorities' = << >>)]_vars
    /\ [][(tick \in hist.failed_ticks /\ pc \in {"sleep", "except"} /\ pc' # pc) =>
             (pc' = "while" /\ hist'.slept = tick)]_vars

\* A listing failed in the first tick, nothing was patched in it, and the
\* second tick patches.
C10_Witness ==
    /\ 1 \in hist.failed_ticks
    /\ tick = 2
    /\ hist.patch_ticks = {2}

\* The updater has returned in this tick and was called in the tick before.
ticked_twice == updater_returned /\ tick > 1 /\ hist.prev_call_tick = tick - 1

ranked_job(i) == job_priorities[i][1]

ranked_score(i) == job_priorities[i][2]

\* C12: a job created later than every clock reading of the scoring has an
\* aging term of 0: its score is classWeight + dominantShare.
C12_NegativeAgeClamped ==
    pc = "update" =>
        \A i \in 1..Len(job_priorities) :
            ranked_job(i).creation_timestamp > Max(Range(hist.nows)) =>
                ranked_score(i) = priority_weight(ranked_job(i))
                    + calculate_dominant_share(ranked_job(i), cluster_info)

\* The code points of the characters of the names, in ascending order.
Alphabet ==
    << "0", "1", "2", "3", "4", "5", "6", "7", "8", "9",
       "a", "b", "c", "d", "e", "f", "g", "h", "i", "j", "k", "l", "m",
       "n", "o", "p", "q", "r", "s", "t", "u", "v", "w", "x", "y", "z" >>

ord(c) == CHOOSE k \in 1..Len(Alphabet) : Alphabet[k] = c

\* a <= b for Python strings.
RECURSIVE str_le(_, _)
str_le(a, b) ==
    IF a = << >> THEN TRUE
    ELSE IF b = << >> THEN FALSE
    ELSE IF Head(a) # Head(b) THEN ord(Head(a)) < ord(Head(b))
    ELSE str_le(Tail(a), Tail(b))

\* The documented order of two ranked entries: score, then creation
\* instant, then identity.
ranks_before(x, y) ==
    \/ x[2] < y[2]
    \/ /\ x[2] = y[2]
       /\ \/ x[1].creation_timestamp < y[1].creation_timestamp
          \/ /\ x[1].creation_timestamp = y[1].creation_timestamp
             /\ str_le(x[1].name, y[1].name)

\* C13: the ranked sequence is ordered by score ascending, ties broken by
\* creation instant ascending and then by identity; the identities being
\* distinct this order is total, so the sequence does not depend on the
\* order in which the jobs were given.
C13_RankingTotalOrder ==
    pc = "update" =>
        \A i, j \in 1..Len(job_priorities) :
            i < j => ranks_before(job_priorities[i], job_priorities[j])

\* How many times the job of this name is in the output of the gang filter.
occurrences(name) ==
    Cardinality({ i \in 1..Len(schedulable_jobs) : schedulable_jobs[i].name = name })

\* Every job of the cluster annotated with gang g is pending.
admissible(g) ==
    \A m \in gang_members(g) : api_jobs[m].name \in pending_names

\* C14: every job with gang disabled in the input of handle_gang_scheduling
\* is exactly once in its output, and so is every member of a gang whose
\* members are all pending.
C14_SingletonsAndWholeGangsPass ==
    pc = "score" =>
        \A k \in 1..Len(pending_jobs) :
            LET j == pending_jobs[k]
            IN  /\ ~j.gang_scheduling => occurrences(j.name) = 1
                /\ (InGangGroup(j) /\ admissible(j.gang_id)) => occurrences(j.name) = 1

\* The filter has passed a job without gang and a whole gang of two.
C14_Witness ==
    /\ pc = "score"
    /\ \E k \in 1..Len(pending_jobs) :
           ~pending_jobs[k].gang_scheduling /\ occurrences(pending_jobs[k].name) = 1
    /\ \E k, l \in 1..Len(pending_jobs) :
           /\ k # l
           /\ InGangGroup(pending_jobs[k]) /\ InGangGroup(pending_jobs[l])
           /\ pending_jobs[k].gang_id = pending_jobs[l].gang_id
           /\ admissible(pending_jobs[k].gang_id)
           /\ occurrences(pending_jobs[k].name) = 1
           /\ occurrences(pending_jobs[l].name) = 1

\* A quantity of the job's requests is rejected by its parser.
malformed(job) ==
    \E rt \in DOMAIN extract_parsed(job) : extract_parsed(job)[rt] = Nothing

\* The tick has the jobs of a listing that succeeded.
observed == pc \in {"get_cluster", "gang", "score", "update", "batch"}

\* C15: a pending job with a quantity its parser rejects is constructed
\* all the same, without the kind of that quantity (or with 0 for it).
C15_MalformedQuantityAbsent ==
    observed =>
        \A k \in 1..Len(api_jobs) :
            (is_pending(api_jobs[k]) /\ malformed(api_jobs[k])) =>
                \E i \in 1..Len(pending_jobs) :
                    /\ pending_jobs[i].name = api_jobs[k].name
                    /\ \A rt \in DOMAIN pending_jobs[i].resources :
                           extract_parsed(api_jobs[k])[rt] = Nothing
                           => pending_jobs[i].resources[rt] = 0

\* C16: without manager (KUEUE_ENABLED false) no call of the updater is
\* made, no task is given to a pool and no workload is patched.
C16_UpdaterDisabled ==
    ~kueue_manager =>
        /\ wl_patch = [ k \in 1..Len(workloads) |-> Nothing ]
        /\ th = NoTasks
        /\ pc # "batch"
        /\ hist.call_tick = 0
        /\ hist.issued = {}
        /\ hist.patch_ticks = {}

\* Without manager the first tick has ranked and slept, and the second
\* tick has ranked jobs too.
C16_Witness ==
    /\ ~kueue_manager
    /\ tick = 2
    /\ hist.slept = 1
    /\ pc = "update"
    /\ Len(job_priorities) >= 2

\* Every job of the scoring was scored at the same clock reading.
same_now == \A k, l \in DOMAIN hist.nows : hist.nows[k] = hist.nows[l]

\* C17: of two jobs of the same class and the same request scored against
\* the same cluster at the same now, the one created earlier has a score
\* less than or equal to the other's, and with alpha > 0 a lower score and
\* a rank before the other's.
C17_AgingNeverRaisesScore ==
    (pc = "update" /\ same_now) =>
        \A i, j \in 1..Len(job_priorities) :
            ( /\ ranked_job(i).priority = ranked_job(j).priority
              /\ ranked_job(i).resources = ranked_job(j).resources
              /\ ranked_job(i).creation_timestamp < ranked_job(j).creation_timestamp )
            => /\ ranked_score(i) <= ranked_score(j)
               /\ aging_alpha > 0 => (ranked_score(i) < ranked_score(j) /\ i < j)

\* Two NORMAL jobs with the same request, 1000 s apart in age, scored at
\* the same now with alpha > 0.
C17_Witness ==
    /\ pc = "update"
    /\ same_now
    /\ aging_alpha > 0
    /\ \E i, j \in 1..Len(job_priorities) :
           /\ ranked_job(i).priority = NORMAL /\ ranked_job(j).priority = NORMAL
           /\ ranked_job(i).resources = ranked_job(j).resources
           /\ ranked_job(i).resources # << >>
           /\ ranked_job(i).creation_timestamp = 19000
           /\ ranked_job(j).creation_timestamp = 20000

\* C18: an URGENT job and a NORMAL job with the same creation instant and
\* the same dominant share, scored at the same now: the URGENT job's score
\* is lower, by the class weight 1000, and it ranks first.
C18_ClassDominanceAtEqualAge ==
    (pc = "update" /\ same_now) =>
        \A i, j \in 1..Len(job_priorities) :
            ( /\ ranked_job(i).priority = URGENT
              /\ ranked_job(j).priority = NORMAL
              /\ ranked_job(i).creation_timestamp = ranked_job(j).creation_timestamp
              /\ calculate_dominant_share(ranked_job(i), cluster_info)
                     = calculate_dominant_share(ranked_job(j), cluster_info) )
            => /\ ranked_score(i) < ranked_score(j)
               /\ ranked_score(j) - ranked_score(i) = 1000 * Scale
               /\ i < j

\* An URGENT and a NORMAL job of the same age and the same share > 0.
C18_Witness ==
    /\ pc = "update"
    /\ same_now
    /\ aging_alpha > 0
    /\ \E i, j \in 1..Len(job_priorities) :
           /\ ranked_job(i).priority = URGENT
           /\ ranked_job(j).priority = NORMAL
           /\ ranked_job(i).creation_timestamp = ranked_job(j).creation_timestamp
           /\ calculate_dominant_share(ranked_job(i), cluster_info) > 0
           /\ calculate_dominant_share(ranked_job(i), cluster_info)
                  = calculate_dominant_share(ranked_job(j), cluster_info)

\* The kinds a job requests of which the cluster has a total > 0.
considered(job) ==
    { rt \in ResourceType :
        /\ rt \in DOMAIN job.resources
        /\ rt \in DOMAIN cluster_info.total_resources
        /\ cluster_info.total_resources[rt] > 0 }

\* The share of the score of the job ranked at i: the score without the
\* class weight and the aging term at one of the clock readings.
share_in_score(i, now) ==
    ranked_score(i) - priority_weight(ranked_job(i))
        + aging_alpha * (now - ranked_job(i).creation_timestamp)

\* C19: the dominant share in a job's score is the greatest of
\* request[k]/totals[k] over the requested kinds k with totals[k] > 0, and
\* 0 when there is none; a kind with total 0 or absent does not count.
C19_DominantShareSkipsLackingKinds ==
    pc = "update" =>
        \A i \in 1..Len(job_priorities) :
            \E now \in Range(hist.nows) :
                LET job == ranked_job(i)
                    ds  == share_in_score(i, now)
                    ks  == considered(job)
                IN  /\ ks = {} => ds = 0
                    /\ ks # {} =>
                           /\ \E k \in ks :
                                  ds = (job.resources[k] * Scale)
                                           \div cluster_info.total_resources[k]
                           /\ \A k \in ks :
                                  ds >= (job.resources[k] * Scale)
                                            \div cluster_info.total_resources[k]

\* GPU total 0 or absent, request {CPU 2, GPU 4}, CPU total 32: 2/32.
C19_Witness ==
    /\ pc = "update"
    /\ \E i \in 1..Len(job_priorities) :
           /\ ranked_job(i).resources = (CPU :> 2000) @@ (GPU :> 4000)
           /\ GPU \notin DOMAIN cluster_info.total_resources
           /\ calculate_dominant_share(ranked_job(i), cluster_info) = 625
           /\ \E now \in Range(hist.nows) : share_in_score(i, now) = 625
    /\ \E i \in 1..Len(job_priorities) : considered(ranked_job(i)) = {}

\* C20: the score is a function of the job, the cluster and one now: the
\* jobs of a tick are all scored at the same now, and two jobs of a tick
\* equal in class, creation instant and request get the same score.
C20_ScorerPure ==
    pc = "update" =>
        /\ same_now
        /\ \A i, j \in 1..Len(job_priorities) :
               ( /\ ranked_job(i).priority = ranked_job(j).priority
                 /\ ranked_job(i).resources = ranked_job(j).resources
                 /\ ranked_job(i).creation_timestamp = ranked_job(j).creation_timestamp )
               => ranked_score(i) = ranked_score(j)

C22_IntervalAtLeastOne ==
    hist.slept >= 1 => (scheduling_interval >= 1 /\ slept(scheduling_interval) >= 1)

\* The ranks written by the patches issued in this call.
issued_ranks == { e[3].rank : e \in hist.issued }

round_div(x, d) ==
    LET q == x \div d
        r == x - q * d
    IN  IF 2 * r < d THEN q
        ELSE IF 2 * r > d THEN q + 1
        ELSE IF q % 2 = 0 THEN q ELSE q + 1

\* C24: the integer written to spec.priority for a score s is
\* round(s * 1000), the nearest integer, for negative scores and for
\* thousandths with a fractional part of one half or more too.
C24_PriorityRounded ==
    \A e \in hist.issued :
        e[3].priority = round_div(e[3].priority_score, Scale \div 1000)

\* The observer of the current tick returned and returned no job.
observed_nothing ==
    /\ tick >= 1
    /\ pc # "get_jobs"
    /\ tick \notin hist.raised_ticks
    /\ pending_jobs = << >>

\* C25: when the observer returns no pending job the tick ends early: the
\* nodes are not listed, nothing is filtered or scored, the updater is not
\* called and no patch is issued in the tick; the next step of the loop is
\* the sleep of the interval, after which the loop tests its flag.
C25_EmptyPending ==
    /\ [](observed_nothing =>
            /\ pc \in {"sleep", "while", "returned"}
            /\ cluster_info = NoClusterInfo("none")
            /\ schedulable_jobs = << >>
            /\ job_priorities = << >>
            /\ hist.call_tick # tick
            /\ tick \notin hist.patch_ticks)
    /\ [][ /\ (pc = "get_jobs" /\ observed_nothing') => pc' = "sleep"
           /\ (observed_nothing /\ pc = "sleep" /\ pc' # "sleep") =>
                (pc' = "while" /\ clock' = clock + slept(scheduling_interval)
                 /\ hist'.issued = hist.issued /\ wl_patch' = wl_patch) ]_vars

\* The second tick found nothing pending after the first had patched a
\* workload, and slept its interval.
C25_Witness ==
    /\ observed_nothing
    /\ tick = 2
    /\ 1 \in hist.patch_ticks
    /\ hist.slept = 2
    /\ pc = "while"
    /\ scheduling_interval = 30

\* C26: in one tick the update of each ranked job is attempted once and
\* makes at most one patch call; a task that has ended is not started
\* again, whatever it returned, and the counts start again only with the
\* updater's call of a later tick, on the list that tick scored.
C26_NoRetry ==
    /\ [](updater_called =>
            /\ DOMAIN hist.attempts = 1..job_count
            /\ \A r \in 1..job_count :
                   /\ hist.attempts[r] <= 1
                   /\ hist.patch_calls[r] <= hist.attempts[r]
                   /\ th[r] = "done" <=> hist.attempts[r] = 1
            /\ (updater_returned /\ pc = "sleep") =>
                   \A r \in 1..job_count : hist.attempts[r] = 1)
    /\ [][ /\ \A r \in DOMAIN th : th[r] = "done" =>
                  (r \in DOMAIN th' /\ th'[r] = "done") \/ pc = "update"
           /\ hist'.attempts # hist.attempts =>
                  \/ \E r \in DOMAIN th : th[r] = "running" /\ th'[r] = "done"
                  \/ /\ pc = "update"
                     /\ hist.call_tick < tick
                     /\ hist'.call_tick = tick
                     /\ hist.nows # << >> ]_vars

\* The second tick has attempted once more, and once only, a job whose
\* update the first tick had attempted and seen fail.
C26_Witness ==
    /\ ticked_twice
    /\ pc = "sleep"
    /\ \E r \in 1..job_count :
           /\ update_fails(r)
           /\ results[r] = "False"
           /\ hist.attempts[r] = 1
    /\ \E r \in 1..job_count : hist.patch_calls[r] = 1 /\ results[r] = "True"
    /\ \E r \in 1..job_count : hist.patch_calls[r] = 1 /\ results[r] = "False"

\* The conversion of the listed job raises: a parser rejects a quantity,
\* or the job has no creation timestamp.
extraction_raises(job) ==
    LET parsed == extract_parsed(job)
    IN  \/ job.creation_timestamp = Nothing
        \/ \E rt \in DOMAIN parsed : parsed[rt] = Nothing

\* The listing of the jobs succeeded in the current tick, and so did every
\* listing made since.
listed == tick >= 1 /\ pc \notin {"init", "get_jobs"} /\ tick \notin hist.failed_ticks

\* The position in the ranking of the job named name, 0 if it has none.
rank_named(name) ==
    IF \E r \in 1..job_count : ranked_job(r).name = name
    THEN CHOOSE r \in 1..job_count : ranked_job(r).name = name
    ELSE 0

\* C27: a listed pending job whose conversion raises is absent from the
\* tick's pending set; every other listed pending job is in it, passes the
\* gang filter unless it is a gang member, is scored, and has its update
\* attempted in the same tick.
C27_ExtractionFailureSkipsJob ==
    listed =>
        LET raising == { k \in 1..Len(api_jobs) :
                           is_pending(api_jobs[k]) /\ extraction_raises(api_jobs[k]) }
            others  == { k \in 1..Len(api_jobs) :
                           is_pending(api_jobs[k]) /\ k \notin raising }
            free    == { k \in others : ~extract_gang_scheduling(api_jobs[k]) }
        IN  /\ Len(pending_jobs) = Cardinality(others)
            /\ \A k \in raising :
                   /\ api_jobs[k].name \notin pending_names
                   /\ rank_named(api_jobs[k].name) = 0
                   /\ hist.call_tick = tick =>
                          \A e \in hist.issued : e[1] # api_jobs[k].name
            /\ \A k \in others : api_jobs[k].name \in pending_names
            /\ pc \notin {"get_cluster", "gang"} =>
                   \A k \in free : \E i \in 1..Len(schedulable_jobs) :
                       schedulable_jobs[i].name = api_jobs[k].name
            /\ pc \notin {"get_cluster", "gang", "score"} =>
                   \A k \in free : rank_named(api_jobs[k].name) > 0
            /\ (updater_returned /\ pc = "sleep") =>
                   \A k \in free : hist.attempts[rank_named(api_jobs[k].name)] = 1

\* The conversion of one listed pending job raised, and the two other jobs
\* of the listing were patched in the tick.
C27_Witness ==
    /\ listed
    /\ updater_returned
    /\ \E k \in 1..Len(api_jobs) :
           is_pending(api_jobs[k]) /\ extraction_raises(api_jobs[k])
    /\ Cardinality({ e[1] : e \in hist.issued }) = 2
    /\ Len(api_jobs) = 3

\* C28: no step of a tick changes the loop's interval or the scorer's
\* alpha; the running flag becomes true only by start() and false only by
\* stop(); and every patch of a tick is that of a job the tick observed,
\* with the score of that job on the cluster totals the tick observed at a
\* clock reading of the tick's scoring, and its position in the tick's
\* ranking.
C28_TickFrame ==
    /\ [][ /\ scheduling_interval' = scheduling_interval
           /\ aging_alpha' = aging_alpha
           /\ kueue_manager' = kueue_manager
           /\ (running' # running) =>
                  \/ running' /\ pc = "init" /\ pc' = "while"
                  \/ ~running' /\ hist'.stop_called /\ pc' = pc /\ tick' = tick ]_vars
    /\ [](updater_called =>
            /\ pending_jobs = extract_all(api_jobs)
            /\ cluster_info = get_cluster_info("ok", api_nodes)
            /\ schedulable_jobs = handle_gang_scheduling(pending_jobs)
            /\ \A e \in hist.issued :
                   \E i \in 1..Len(schedulable_jobs) :
                       \E now \in Range(hist.nows) :
                           /\ e[1] = schedulable_jobs[i].name
                           /\ e[3] = patch_body(
                                  calculate_priority_score(schedulable_jobs[i],
                                      cluster_info, aging_alpha, now),
                                  rank_named(e[1])))

\* After a tick in which a listing failed, a tick that patched, and
\* stop(): the interval and alpha are those of the construction and the
\* flag is false.
C28_Witness ==
    /\ tick = 2
    /\ pc = "while"
    /\ 1 \in hist.failed_ticks
    /\ 2 \in hist.patch_ticks
    /\ hist.stop_called
    /\ ~running
    /\ scheduling_interval = 30
    /\ aging_alpha = aging_alpha_default

\* C29: the output of handle_gang_scheduling holds only jobs of its input,
\* each at most once, and an input job that is not in the output is a
\* member of a gang that is not admissible; a job with gang scheduling
\* enabled and no group id is not dropped.
C29_GangFilterKeepsJobs ==
    pc = "score" =>
        /\ \A i \in 1..Len(schedulable_jobs) :
               \E k \in 1..Len(pending_jobs) : pending_jobs[k] = schedulable_jobs[i]
        /\ \A k \in 1..Len(pending_jobs) :
               LET j == pending_jobs[k]
               IN  /\ occurrences(j.name) <= 1
                   /\ occurrences(j.name) = 0 =>
                          (InGangGroup(j) /\ ~admissible(j.gang_id))

====
